---- MODULE Spec2Model ----
(***************************************************************************)
(* QuestAtlas map view (static/app.js): camera, region classifier, hit     *)
(* test, pointer interaction flags and the request/response round trips.   *)
(* JavaScript Numbers are modelled as exact rationals <<n, d>> (d > 0, in  *)
(* lowest terms), so that division by the zoom factor is what the code     *)
(* computes and not an integer approximation of it.                        *)
(***************************************************************************)
EXTENDS Integers, Sequences, FiniteSets, TLC

VARIABLES quests, selectedQuestId, panelOpen, cam, canvas, isSpaceDown,
          dragging, panning, placing, inflight, server, toasts, budget, downAt,
          probe

vars == <<quests, selectedQuestId, panelOpen, cam, canvas, isSpaceDown,
          dragging, panning, placing, inflight, server, toasts, budget, downAt,
          probe>>

----------------------------------------------------------------------------
(* Rational arithmetic: the Number operations the handlers use.            *)

Abs(i) == IF i < 0 THEN -i ELSE i

RECURSIVE GCD(_, _)
GCD(a, b) == IF b = 0 THEN a ELSE GCD(b, a % b)

Norm(n, d) == LET g == GCD(Abs(n), d) IN <<n \div g, d \div g>>

R(i) == <<i, 1>>

Frac(n, d) == Norm(n, d)

RNeg(a) == <<-a[1], a[2]>>

RAdd(a, b) ==
    LET g == GCD(a[2], b[2])
        fa == b[2] \div g
        fb == a[2] \div g
    IN  Norm(a[1] * fa + b[1] * fb, a[2] * fa)

RSub(a, b) == RAdd(a, RNeg(b))

RMul(a, b) ==
    LET g1 == GCD(Abs(a[1]), b[2])
        g2 == GCD(Abs(b[1]), a[2])
    IN  Norm((a[1] \div g1) * (b[1] \div g2), (a[2] \div g2) * (b[2] \div g1))

\* a / b for b # 0 (the only divisor in the code is cam.z >= 0.55)
RDiv(a, b) ==
    IF b[1] > 0 THEN RMul(a, <<b[2], b[1]>>) ELSE RMul(a, <<-b[2], -b[1]>>)

RLe(a, b) == RSub(a, b)[1] <= 0

RLt(a, b) == RSub(a, b)[1] < 0

RMax(a, b) == IF RLe(a, b) THEN b ELSE a

RMin(a, b) == IF RLe(a, b) THEN a ELSE b

\* Math.floor
RFloor(a) == a[1] \div a[2]

----------------------------------------------------------------------------
(* World, regions (app.js 36-54)                                           *)

WorldW == 1800
WorldH == 1000

REGIONS == << [key |-> "backlog", name |-> "Village", x0 |-> 0,    x1 |-> 600],
              [key |-> "doing",   name |-> "Trail",   x0 |-> 600,  x1 |-> 1200],
              [key |-> "done",    name |-> "Castle",  x0 |-> 1200, x1 |-> 1800] >>

RECURSIVE regionScan(_, _)
regionScan(x, i) ==
    IF i > Len(REGIONS) THEN REGIONS[Len(REGIONS)]
    ELSE IF RLe(R(REGIONS[i].x0), x) /\ RLt(x, R(REGIONS[i].x1)) THEN REGIONS[i]
    ELSE regionScan(x, i + 1)

\* a regionForX that falls back to the first region
regionForXFirst(x) ==
    LET r == regionScan(x, 1) IN
    IF RLe(R(r.x0), x) /\ RLt(x, R(r.x1)) THEN r ELSE REGIONS[1]

regionForX(x) == regionScan(x, 1)

----------------------------------------------------------------------------
(* Camera (app.js 57-75)                                                   *)

ZoomMin == Frac(55, 100)
ZoomMax == Frac(19, 10)
ZoomOut == Frac(92, 100)
ZoomIn  == Frac(108, 100)
ZoomReset == Frac(9, 10)

resetCamera(cv) ==
    [ z |-> ZoomReset,
      x |-> RDiv(RSub(R(WorldW), RDiv(R(cv.w), ZoomReset)), R(2)),
      y |-> RDiv(RSub(R(WorldH), RDiv(R(cv.h), ZoomReset)), R(2)) ]

worldToScreen(c, wx, wy) ==
    [ x |-> RMul(RSub(wx, c.x), c.z), y |-> RMul(RSub(wy, c.y), c.z) ]

\* a screenToWorld that forgets the camera offset
screenToWorldNoOffset(c, sx, sy) ==
    [ x |-> RDiv(sx, c.z), y |-> RDiv(sy, c.z) ]

screenToWorld(c, sx, sy) ==
    [ x |-> RAdd(RDiv(sx, c.z), c.x), y |-> RAdd(RDiv(sy, c.z), c.y) ]

viewW(c, cv) == RDiv(R(cv.w), c.z)
viewH(c, cv) == RDiv(R(cv.h), c.z)

\* a clamp that keeps the offset from going negative and no more
clampCameraLow(c, cv) ==
    [ c EXCEPT !.x = RMax(R(0), c.x), !.y = RMax(R(0), c.y) ]

clampCamera(c, cv) ==
    [ c EXCEPT !.x = RMax(R(0), RMin(c.x, RSub(R(WorldW), viewW(c, cv)))),
               !.y = RMax(R(0), RMin(c.y, RSub(R(WorldH), viewH(c, cv)))) ]

----------------------------------------------------------------------------
(* Bounds of the model                                                     *)

\* requests issued after the initial state (the boot-time GET not counted)
MaxRequests == 1
\* wheel events
MaxWheel == 1
\* pans started
MaxPans == 1

----------------------------------------------------------------------------
(* Values                                                                  *)

\* selectedQuestId = null, dragging.questId = null, "no hit"
NoQuest == 0

\* hit radius in screen pixels (questAtScreen)
HitRadius == 18

\* a point with Number coordinates
Pt(x, y) == [x |-> R(x), y |-> R(y)]

\* text is a sequence of characters; String.prototype.trim
RECURSIVE TrimLeft(_)
TrimLeft(s) == IF s # <<>> /\ Head(s) = " " THEN TrimLeft(Tail(s)) ELSE s

RECURSIVE TrimRight(_)
TrimRight(s) ==
    IF s # <<>> /\ s[Len(s)] = " " THEN TrimRight(SubSeq(s, 1, Len(s) - 1)) ELSE s

Trim(s) == TrimRight(TrimLeft(s))

Quest(id, title, note, status, x, y) ==
    [id |-> id, title |-> title, note |-> note, status |-> status, x |-> x, y |-> y]

\* quests.find(x => x.id === id): index of the first match, 0 for undefined
RECURSIVE findFrom(_, _, _)
findFrom(qs, id, i) ==
    IF i > Len(qs) THEN 0
    ELSE IF qs[i].id = id THEN i
    ELSE findFrom(qs, id, i + 1)

findQuest(qs, id) == findFrom(qs, id, 1)

\* no clamping: the value as it is
clampToFree(v, limit) == v

\* clamp of a world coordinate: Math.max(0, Math.min(limit, v))
clampTo(v, limit) == RMax(R(0), RMin(R(limit), v))

----------------------------------------------------------------------------
(* Hit testing (app.js 270-280): index of the quest returned, 0 for null   *)

withinHit(c, q, sx, sy) ==
    LET p  == worldToScreen(c, q.x, q.y)
        dx == RSub(sx, p.x)
        dy == RSub(sy, p.y)
    IN  \* dx*dx + dy*dy <= hit*hit; a marker further than hit on one axis
        \* fails the test whatever the other axis, and is decided without
        \* squaring
        /\ RLe(RNeg(R(HitRadius)), dx) /\ RLe(dx, R(HitRadius))
        /\ RLe(RNeg(R(HitRadius)), dy) /\ RLe(dy, R(HitRadius))
        /\ RLe(RAdd(RMul(dx, dx), RMul(dy, dy)), R(HitRadius * HitRadius))

RECURSIVE hitFrom(_, _, _, _, _)
hitFrom(c, qs, sx, sy, i) ==
    IF i > Len(qs) THEN 0
    ELSE IF withinHit(c, qs[i], sx, sy) THEN i
    ELSE hitFrom(c, qs, sx, sy, i + 1)

questAtScreen(c, qs, sx, sy) == hitFrom(c, qs, sx, sy, 1)

\* draw() paints quests in collection order, so the marker painted last among
\* those under the point is the one the user sees on top
RECURSIVE drawnLast(_, _, _, _, _, _)
drawnLast(c, qs, sx, sy, i, top) ==
    IF i > Len(qs) THEN top
    ELSE drawnLast(c, qs, sx, sy, i + 1,
                   IF withinHit(c, qs[i], sx, sy) THEN i ELSE top)

topmostDrawn(c, qs, sx, sy) == drawnLast(c, qs, sx, sy, 1, 0)

----------------------------------------------------------------------------
(* Inputs drawn by the events                                              *)

\* pointer positions relative to the canvas (e.clientX - rect.left, ...)
Points == { Pt(450, 450), Pt(585, 360) }

\* titleInput.value / qpTitle.value and noteInput.value / qpNote.value
TitleInputs == { <<>>, <<" ">>, <<" ", "b">> }
NoteInputs  == { <<"n", " ">> }

\* the three Math.random() draws of one random-place click
Randoms == { <<R(0), R(0), R(0)>>, <<Frac(3, 4), Frac(3, 4), Frac(3, 4)>> }

\* e.button: 0 main, 1 middle
Buttons == { 0, 1 }

----------------------------------------------------------------------------
(* Requests and responses                                                  *)

NoPayload == Quest(NoQuest, <<>>, <<>>, "", R(0), R(0))

Pending == [status |-> 0, kind |-> "none", data |-> <<>>, error |-> ""]

\* one call of api(): what was sent, what its caller reads after the await
\* (the dragging branch of mouseup reads sx, sy; the create code reads r.name)
\* and the response once the server has answered.
\* down is history only: where the pointer went down in the drag that
\* issued the request.
Request(rid, kind, id, payload, p, rkey, down) ==
    [rid |-> rid, kind |-> kind, id |-> id, payload |-> payload,
     sx |-> p.x, sy |-> p.y, rkey |-> rkey, down |-> down, resp |-> Pending]

\* an api() that always takes the message from the body's error field
apiNoFallback(resp) ==
    IF resp.status \in 200..299
    THEN [threw |-> FALSE, data |-> resp.data, msg |-> ""]
    ELSE [threw |-> TRUE, data |-> <<>>, msg |-> resp.error]

\* api() (app.js 78-88) applied to a response: the value returned, or the
\* message of the Error thrown
api(resp) ==
    LET data == IF resp.kind = "empty" THEN "null"
                ELSE IF resp.kind = "json" THEN "parsed" ELSE "text"
    IN  IF resp.status \in 200..299
        THEN [threw |-> FALSE, data |-> resp.data, msg |-> ""]
        ELSE [threw |-> TRUE, data |-> <<>>,
              msg |-> IF data = "parsed" /\ resp.error # "" THEN resp.error
                      ELSE "HTTP " \o ToString(resp.status)]

----------------------------------------------------------------------------
(* The quest API of section 6 of the specification (the server is not part *)
(* of the map view's sources).                                             *)

serverFind(id) == findQuest(server.quests, id)

serverOk(data) == [status |-> 200, kind |-> "json", data |-> data, error |-> ""]
serverNoContent == [status |-> 204, kind |-> "empty", data |-> <<>>, error |-> ""]
\* a failure with an empty body, and one whose JSON body carries "error"
serverError(st) == [status |-> st, kind |-> "empty", data |-> <<>>, error |-> ""]
serverRefuses(r) ==
    [status |-> 500, kind |-> "json", data |-> <<>>, error |-> r.kind \o " failed"]

\* PATCH merges the fields sent into the stored record
serverMerge(q, r) ==
    IF r.kind = "move"
    THEN [q EXCEPT !.x = r.payload.x, !.y = r.payload.y, !.status = r.payload.status]
    ELSE [q EXCEPT !.title = r.payload.title, !.note = r.payload.note]

\* the server's state and its answer after handling request r
serverApply(r) ==
    LET i == serverFind(r.id) IN
    CASE r.kind = "load" ->
           [srv |-> server, resp |-> serverOk(server.quests)]
      [] r.kind = "create" ->
           LET q == [r.payload EXCEPT !.id = server.nextId] IN
           [srv |-> [quests |-> Append(server.quests, q), nextId |-> server.nextId + 1],
            resp |-> serverOk(<<q>>)]
      [] r.kind \in {"move", "save"} ->
           IF i = 0 THEN [srv |-> server, resp |-> serverError(404)]
           ELSE LET q == serverMerge(server.quests[i], r) IN
                [srv |-> [server EXCEPT !.quests[i] = q], resp |-> serverOk(<<q>>)]
      [] OTHER ->
           IF i = 0 THEN [srv |-> server, resp |-> serverError(404)]
           ELSE [srv |-> [server EXCEPT !.quests =
                            SelectSeq(server.quests, LAMBDA x : x.id # r.id)],
                 resp |-> serverNoContent]

\* the server answers a request in flight: per contract, or it refuses it
ServerHandle(r, fails) ==
    /\ r \in inflight
    /\ r.resp.status = 0
    /\ LET out == IF fails THEN [srv |-> server, resp |-> serverRefuses(r)]
                  ELSE serverApply(r)
       IN  /\ server' = out.srv
           /\ inflight' = (inflight \ {r}) \cup {[r EXCEPT !.resp = out.resp]}
    /\ UNCHANGED <<probe, quests, selectedQuestId, panelOpen, cam, canvas, isSpaceDown,
                   dragging, panning, placing, toasts, budget, downAt>>

----------------------------------------------------------------------------
(* downAt is history: where the pointer went down for the latest drag.     *)
(* probe holds the argument and the result of a function applied on its   *)
(* own (the function specifications below); no handler touches it.         *)
(* toasts is the text of the notice on show (toastEl.textContent).         *)

NoProbe == [fn |-> "none", arg |-> <<>>, out |-> <<>>]

toast(msg) == toasts' = msg

issue(r) ==
    /\ budget.req < MaxRequests
    /\ inflight' = inflight \cup {r}
    /\ budget' = [budget EXCEPT !.req = @ + 1]

nextRid == budget.req + 1

----------------------------------------------------------------------------
(* Keyboard and panel close (app.js 321-334)                               *)

KeyDownSpace ==
    /\ isSpaceDown' = TRUE
    /\ UNCHANGED <<probe, quests, selectedQuestId, panelOpen, cam, canvas, dragging,
                   panning, placing, inflight, server, toasts, budget, downAt>>

KeyUpSpace ==
    /\ isSpaceDown' = FALSE
    /\ UNCHANGED <<probe, quests, selectedQuestId, panelOpen, cam, canvas, dragging,
                   panning, placing, inflight, server, toasts, budget, downAt>>

\* closeQuestPanel(): by the Escape key at any time, by the panel's close
\* button while the panel is shown
closeQuestPanel ==
    /\ selectedQuestId' = NoQuest
    /\ panelOpen' = FALSE

KeyEscape ==
    /\ closeQuestPanel
    /\ UNCHANGED <<probe, quests, cam, canvas, isSpaceDown, dragging, panning, placing,
                   inflight, server, toasts, budget, downAt>>

QpClose ==
    /\ panelOpen
    /\ closeQuestPanel
    /\ UNCHANGED <<probe, quests, cam, canvas, isSpaceDown, dragging, panning, placing,
                   inflight, server, toasts, budget, downAt>>

----------------------------------------------------------------------------
(* mousemove (app.js 336-373)                                              *)

\* a drag-move that moves the quest and leaves its status alone
dragMoveKeepsStatus(q, w, drg) ==
    [q EXCEPT !.x = clampTo(RSub(w.x, drg.offsetX), WorldW),
              !.y = clampTo(RSub(w.y, drg.offsetY), WorldH)]

\* the dragging branch's update of the dragged quest, w the pointer's world point
dragMove(q, w, drg) ==
    LET nx == clampTo(RSub(w.x, drg.offsetX), WorldW)
        ny == clampTo(RSub(w.y, drg.offsetY), WorldH)
    IN  [q EXCEPT !.x = nx, !.y = ny, !.status = regionForX(nx).key]

\* the panning branch's update of the camera
panMove(c, cv, pan, p) ==
    LET dx == RDiv(RSub(p.x, pan.startSX), c.z)
        dy == RDiv(RSub(p.y, pan.startSY), c.z)
    IN  clampCamera([c EXCEPT !.x = RSub(pan.startCamX, dx),
                              !.y = RSub(pan.startCamY, dy)], cv)

MouseMove(p) ==
    /\ IF placing.active
       THEN LET w == screenToWorld(cam, p.x, p.y) IN
            /\ placing' = [placing EXCEPT !.wx = clampTo(w.x, WorldW),
                                          !.wy = clampTo(w.y, WorldH)]
            /\ UNCHANGED <<quests, cam>>
       ELSE IF dragging.active
       THEN LET i == findQuest(quests, dragging.questId) IN
            /\ quests' = IF i = 0 THEN quests
                         ELSE [quests EXCEPT ![i] =
                                 dragMove(@, screenToWorld(cam, p.x, p.y), dragging)]
            /\ UNCHANGED <<placing, cam>>
       ELSE IF panning.active
       THEN /\ cam' = panMove(cam, canvas, panning, p)
            /\ UNCHANGED <<quests, placing>>
       ELSE UNCHANGED <<quests, placing, cam>>
    /\ UNCHANGED <<probe, selectedQuestId, panelOpen, canvas, isSpaceDown, dragging,
                   panning, inflight, server, toasts, budget, downAt>>

----------------------------------------------------------------------------
(* mousedown (app.js 375-401)                                              *)

\* a mousedown without the early return for placing.active
MouseDownWhilePlacing(p, button) ==
    LET hit == questAtScreen(cam, quests, p.x, p.y)
        w   == screenToWorld(cam, p.x, p.y)
        pan == isSpaceDown \/ button = 1
    IN
    /\ IF pan
       THEN /\ budget.pan < MaxPans
            /\ budget' = [budget EXCEPT !.pan = @ + 1]
            /\ panning' = [active |-> TRUE, startSX |-> p.x, startSY |-> p.y,
                           startCamX |-> cam.x, startCamY |-> cam.y]
            /\ UNCHANGED <<dragging, selectedQuestId, downAt>>
       ELSE IF hit # 0
       THEN /\ selectedQuestId' = quests[hit].id
            /\ dragging' = [active |-> TRUE, questId |-> quests[hit].id,
                            offsetX |-> RSub(w.x, quests[hit].x),
                            offsetY |-> RSub(w.y, quests[hit].y)]
            /\ downAt' = p
            /\ UNCHANGED <<panning, budget>>
       ELSE UNCHANGED <<panning, dragging, selectedQuestId, downAt, budget>>
    /\ UNCHANGED <<probe, quests, panelOpen, cam, canvas, isSpaceDown, placing,
                   inflight, server, toasts>>

MouseDown(p, button) ==
    LET hit == questAtScreen(cam, quests, p.x, p.y)
        w   == screenToWorld(cam, p.x, p.y)
        pan == isSpaceDown \/ button = 1
    IN
    /\ IF placing.active
       THEN UNCHANGED <<panning, dragging, selectedQuestId, downAt, budget>>
       ELSE IF pan
       THEN /\ budget.pan < MaxPans
            /\ budget' = [budget EXCEPT !.pan = @ + 1]
            /\ panning' = [active |-> TRUE, startSX |-> p.x, startSY |-> p.y,
                           startCamX |-> cam.x, startCamY |-> cam.y]
            /\ UNCHANGED <<dragging, selectedQuestId, downAt>>
       ELSE IF hit # 0
       THEN /\ selectedQuestId' = quests[hit].id
            /\ dragging' = [active |-> TRUE, questId |-> quests[hit].id,
                            offsetX |-> RSub(w.x, quests[hit].x),
                            offsetY |-> RSub(w.y, quests[hit].y)]
            /\ downAt' = p
            /\ UNCHANGED <<panning, budget>>
       ELSE UNCHANGED <<panning, dragging, selectedQuestId, downAt, budget>>
    /\ UNCHANGED <<probe, quests, panelOpen, cam, canvas, isSpaceDown, placing,
                   inflight, server, toasts>>

----------------------------------------------------------------------------
(* Detail panel (app.js 309-319)                                           *)

openQuestPanel(q) ==
    /\ selectedQuestId' = q.id
    /\ panelOpen' = TRUE

\* "click-release should open panel" (app.js 448-450), at pointer-up point
\* (sx, sy) against the collection, camera and selection of the moment it runs
releaseOpensPanel(sx, sy) ==
    LET hit == questAtScreen(cam, quests, sx, sy) IN
    hit # 0 /\ quests[hit].id = selectedQuestId

----------------------------------------------------------------------------
(* mouseup (app.js 403-455), up to its first await                         *)

MouseUp(p) ==
    /\ IF placing.active
       THEN LET r == regionForX(placing.wx)
                payload == Quest(NoQuest, placing.pendingTitle, placing.pendingNote,
                                 r.key, placing.wx, placing.wy)
            IN  /\ placing' = [placing EXCEPT !.active = FALSE]
                /\ issue(Request(nextRid, "create", NoQuest, payload,
                                 Pt(0, 0), r.name, Pt(0, 0)))
                /\ UNCHANGED <<dragging, panning, selectedQuestId, panelOpen>>
       ELSE IF dragging.active
       THEN LET i == findQuest(quests, dragging.questId) IN
            /\ dragging' = [dragging EXCEPT !.active = FALSE]
            /\ IF i # 0
               THEN /\ issue(Request(nextRid, "move", quests[i].id,
                                     [NoPayload EXCEPT !.x = quests[i].x,
                                                       !.y = quests[i].y,
                                                       !.status = quests[i].status],
                                     p, "", downAt))
                    /\ UNCHANGED <<selectedQuestId, panelOpen>>
               ELSE /\ IF releaseOpensPanel(p.x, p.y)
                       THEN openQuestPanel(quests[questAtScreen(cam, quests, p.x, p.y)])
                       ELSE UNCHANGED <<selectedQuestId, panelOpen>>
                    /\ UNCHANGED <<inflight, budget>>
            /\ UNCHANGED <<placing, panning>>
       ELSE /\ panning' = [panning EXCEPT !.active = FALSE]
            /\ UNCHANGED <<placing, dragging, selectedQuestId, panelOpen,
                           inflight, budget>>
    /\ UNCHANGED <<probe, quests, cam, canvas, isSpaceDown, server, toasts, downAt>>

----------------------------------------------------------------------------
(* mouseleave (app.js 457-460)                                             *)

\* a mouseleave that ends the drag the way a mouseup does, with its PATCH
MouseLeavePersists ==
    LET i == findQuest(quests, dragging.questId) IN
    /\ dragging' = [dragging EXCEPT !.active = FALSE]
    /\ panning' = [panning EXCEPT !.active = FALSE]
    /\ IF dragging.active /\ i # 0
       THEN issue(Request(nextRid, "move", quests[i].id,
                          [NoPayload EXCEPT !.x = quests[i].x, !.y = quests[i].y,
                                            !.status = quests[i].status],
                          Pt(0, 0), "", downAt))
       ELSE UNCHANGED <<inflight, budget>>
    /\ UNCHANGED <<probe, quests, selectedQuestId, panelOpen, cam, canvas, isSpaceDown,
                   placing, server, toasts, downAt>>

MouseLeave ==
    /\ dragging' = [dragging EXCEPT !.active = FALSE]
    /\ panning' = [panning EXCEPT !.active = FALSE]
    /\ UNCHANGED <<probe, quests, selectedQuestId, panelOpen, cam, canvas, isSpaceDown,
                   placing, inflight, server, toasts, budget, downAt>>

----------------------------------------------------------------------------
(* wheel (app.js 462-481), recenter (587-591), resize (91-99)              *)

clampZoom(z) == RMax(ZoomMin, RMin(ZoomMax, z))

\* a zoom that changes the factor and keeps the offset
zoomAtNoAnchor(c, sx, sy, factor) ==
    [c EXCEPT !.z = clampZoom(RMul(c.z, factor))]

\* zoom about the cursor: lines 469-477, before clampCamera
zoomAt(c, sx, sy, factor) ==
    LET before == screenToWorld(c, sx, sy)
        zc     == [c EXCEPT !.z = clampZoom(RMul(c.z, factor))]
        after  == screenToWorld(zc, sx, sy)
    IN  [zc EXCEPT !.x = RAdd(zc.x, RSub(before.x, after.x)),
                   !.y = RAdd(zc.y, RSub(before.y, after.y))]

\* deltaSign is Math.sign(e.deltaY)
wheelFactor(deltaSign) == IF deltaSign > 0 THEN ZoomOut ELSE ZoomIn

Wheel(p, deltaSign) ==
    /\ budget.wheel < MaxWheel
    /\ budget' = [budget EXCEPT !.wheel = @ + 1]
    /\ cam' = clampCamera(zoomAt(cam, p.x, p.y, wheelFactor(deltaSign)), canvas)
    /\ UNCHANGED <<probe, quests, selectedQuestId, panelOpen, canvas, isSpaceDown,
                   dragging, panning, placing, inflight, server, toasts, downAt>>

Recenter ==
    /\ cam' = clampCamera(resetCamera(canvas), canvas)
    /\ UNCHANGED <<probe, quests, selectedQuestId, panelOpen, canvas, isSpaceDown,
                   dragging, panning, placing, inflight, server, toasts, budget,
                   downAt>>

\* rect is the canvas's bounding rectangle in CSS pixels, dpr the device
\* pixel ratio: canvas.width = Math.floor(rect.width * dpr)
sizeCanvas(rw, rh, dpr) ==
    [w |-> RFloor(RMul(rw, dpr)), h |-> RFloor(RMul(rh, dpr)), rw |-> rw, rh |-> rh]

Resize(rw, rh, dpr) ==
    /\ canvas' = sizeCanvas(rw, rh, RMax(R(1), dpr))
    /\ cam' = clampCamera(cam, canvas')
    /\ UNCHANGED <<probe, quests, selectedQuestId, panelOpen, isSpaceDown, dragging,
                   panning, placing, inflight, server, toasts, budget, downAt>>

----------------------------------------------------------------------------
(* Create flow (app.js 484-536)                                            *)

\* a startPlacing without the title check
startPlacingAnyTitle(title, note) ==
    LET center == screenToWorld(cam, RDiv(canvas.rw, R(2)), RDiv(canvas.rh, R(2)))
    IN  /\ placing' = [active |-> TRUE,
                       pendingTitle |-> Trim(title),
                       pendingNote |-> Trim(note),
                       wx |-> clampTo(center.x, WorldW),
                       wy |-> clampTo(center.y, WorldH)]
        /\ toast("Click a spot to place")

\* startPlacing(title, note, "click"), called by the create form's submit
startPlacing(title, note) ==
    IF Trim(title) = <<>>
    THEN /\ toast("Need a title")
         /\ UNCHANGED placing
    ELSE LET center == screenToWorld(cam, RDiv(canvas.rw, R(2)), RDiv(canvas.rh, R(2)))
         IN  /\ placing' = [active |-> TRUE,
                            pendingTitle |-> Trim(title),
                            pendingNote |-> Trim(note),
                            wx |-> clampTo(center.x, WorldW),
                            wy |-> clampTo(center.y, WorldH)]
             /\ toast("Click a spot to place")

Submit(title, note) ==
    /\ startPlacing(title, note)
    /\ UNCHANGED <<probe, quests, selectedQuestId, panelOpen, cam, canvas, isSpaceDown,
                   dragging, panning, inflight, server, budget, downAt>>

\* the random point: u[1], u[2], u[3] are the three Math.random() draws
randomRegion(u1) == REGIONS[RFloor(RMul(u1, R(Len(REGIONS)))) + 1]
\* a random x over the whole region, without the edge margin
randomXNoMargin(r, u2) == RAdd(R(r.x0), RMul(u2, R(r.x1 - r.x0)))
randomX(r, u2) == RAdd(R(r.x0 + 60), RMul(u2, R(r.x1 - r.x0 - 120)))
randomY(u3) == RAdd(R(90), RMul(u3, R(WorldH - 180)))

RandomPlace(title, note, u) ==
    LET t == Trim(title)
        r == randomRegion(u[1])
        x == randomX(r, u[2])
        y == randomY(u[3])
    IN
    /\ IF t = <<>>
       THEN /\ toast("Need a title")
            /\ UNCHANGED <<placing, inflight, budget>>
       ELSE \* placing.active is set and, before the handler returns, cleared
            \* again by the synchronous start of the auto-place function
            /\ placing' = [active |-> FALSE, pendingTitle |-> t,
                           pendingNote |-> Trim(note), wx |-> x, wy |-> y]
            /\ issue(Request(nextRid, "create", NoQuest,
                             Quest(NoQuest, t, Trim(note), r.key, x, y),
                             Pt(0, 0), r.name, Pt(0, 0)))
            /\ UNCHANGED toasts
    /\ UNCHANGED <<probe, quests, selectedQuestId, panelOpen, cam, canvas, isSpaceDown,
                   dragging, panning, server, downAt>>

----------------------------------------------------------------------------
(* Panel actions (app.js 539-575), up to their await.  The panel's buttons *)
(* can be clicked while the panel is shown.                                *)

QpSave(title, note) ==
    LET i == findQuest(quests, selectedQuestId) IN
    /\ panelOpen
    /\ IF i = 0
       THEN UNCHANGED <<toasts, inflight, budget>>
       ELSE IF Trim(title) = <<>>
       THEN /\ toast("Title cannot be empty")
            /\ UNCHANGED <<inflight, budget>>
       ELSE /\ issue(Request(nextRid, "save", quests[i].id,
                             [NoPayload EXCEPT !.title = Trim(title),
                                               !.note = Trim(note)],
                             Pt(0, 0), "", Pt(0, 0)))
            /\ UNCHANGED toasts
    /\ UNCHANGED <<probe, quests, selectedQuestId, panelOpen, cam, canvas, isSpaceDown,
                   dragging, panning, placing, server, downAt>>

QpDelete ==
    LET i == findQuest(quests, selectedQuestId) IN
    /\ panelOpen
    /\ IF i = 0
       THEN UNCHANGED <<inflight, budget>>
       ELSE issue(Request(nextRid, "delete", quests[i].id, NoPayload,
                          Pt(0, 0), "", Pt(0, 0)))
    /\ UNCHANGED <<probe, quests, selectedQuestId, panelOpen, cam, canvas, isSpaceDown,
                   dragging, panning, placing, server, toasts, downAt>>

----------------------------------------------------------------------------
(* The code after each await: it runs when the response has arrived        *)

answered(r, kind) == r \in inflight /\ r.kind = kind /\ r.resp.status # 0

\* load() (app.js 605-611, 614)
CompleteLoad(r) ==
    LET a == api(r.resp) IN
    /\ answered(r, "load")
    /\ inflight' = inflight \ {r}
    /\ IF a.threw
       THEN /\ toast(a.msg)
            /\ UNCHANGED <<quests, cam>>
       ELSE /\ quests' = a.data
            /\ cam' = clampCamera(resetCamera(canvas), canvas)
            /\ UNCHANGED toasts
    /\ UNCHANGED <<probe, selectedQuestId, panelOpen, canvas, isSpaceDown, dragging,
                   panning, placing, server, budget, downAt>>

\* a create completion that shows the quest it asked for even when the
\* request failed
CompleteCreateOptimistic(r) ==
    LET a == api(r.resp) IN
    /\ answered(r, "create")
    /\ inflight' = inflight \ {r}
    /\ IF a.threw
       THEN /\ toast(a.msg)
            /\ quests' = <<r.payload>> \o quests
       ELSE /\ quests' = <<a.data[1]>> \o quests
            /\ toast("Placed in " \o r.rkey)
    /\ UNCHANGED <<probe, selectedQuestId, panelOpen, cam, canvas, isSpaceDown, dragging,
                   panning, placing, server, budget, downAt>>

\* mouseup placing branch and random-place (app.js 421-428, 524-534)
CompleteCreate(r) ==
    LET a == api(r.resp) IN
    /\ answered(r, "create")
    /\ inflight' = inflight \ {r}
    /\ IF a.threw
       THEN /\ toast(a.msg)
            /\ UNCHANGED quests
       ELSE /\ quests' = <<a.data[1]>> \o quests
            /\ toast("Placed in " \o r.rkey)
    /\ UNCHANGED <<probe, selectedQuestId, panelOpen, cam, canvas, isSpaceDown, dragging,
                   panning, placing, server, budget, downAt>>

\* mouseup dragging branch (app.js 438-451): the response body is not used
CompleteMove(r) ==
    LET a == api(r.resp) IN
    /\ answered(r, "move")
    /\ inflight' = inflight \ {r}
    /\ IF a.threw THEN toast(a.msg) ELSE UNCHANGED toasts
    /\ IF releaseOpensPanel(r.sx, r.sy)
       THEN openQuestPanel(quests[questAtScreen(cam, quests, r.sx, r.sy)])
       ELSE UNCHANGED <<selectedQuestId, panelOpen>>
    /\ UNCHANGED <<probe, quests, cam, canvas, isSpaceDown, dragging, panning, placing,
                   server, budget, downAt>>

\* qpSave (app.js 552-557)
CompleteSave(r) ==
    LET a == api(r.resp) IN
    /\ answered(r, "save")
    /\ inflight' = inflight \ {r}
    /\ IF a.threw
       THEN /\ toast(a.msg)
            /\ UNCHANGED <<quests, selectedQuestId, panelOpen>>
       ELSE /\ quests' = [i \in DOMAIN quests |->
                            IF quests[i].id = r.id THEN a.data[1] ELSE quests[i]]
            /\ toast("Saved")
            /\ openQuestPanel(a.data[1])
    /\ UNCHANGED <<probe, cam, canvas, isSpaceDown, dragging, panning, placing, server,
                   budget, downAt>>

\* a delete that drops the quest whatever the answer
CompleteDeleteOptimistic(r) ==
    LET a == api(r.resp) IN
    /\ answered(r, "delete")
    /\ inflight' = inflight \ {r}
    /\ quests' = SelectSeq(quests, LAMBDA x : x.id # r.id)
    /\ IF a.threw
       THEN /\ toast(a.msg)
            /\ UNCHANGED <<selectedQuestId, panelOpen>>
       ELSE /\ toast("Deleted")
            /\ closeQuestPanel
    /\ UNCHANGED <<probe, cam, canvas, isSpaceDown, dragging, panning, placing, server,
                   budget, downAt>>

\* qpDelete (app.js 566-574)
CompleteDelete(r) ==
    LET a == api(r.resp) IN
    /\ answered(r, "delete")
    /\ inflight' = inflight \ {r}
    /\ IF a.threw
       THEN /\ toast(a.msg)
            /\ UNCHANGED <<quests, selectedQuestId, panelOpen>>
       ELSE /\ quests' = SelectSeq(quests, LAMBDA x : x.id # r.id)
            /\ toast("Deleted")
            /\ closeQuestPanel
    /\ UNCHANGED <<probe, cam, canvas, isSpaceDown, dragging, panning, placing, server,
                   budget, downAt>>

----------------------------------------------------------------------------
(* Initial states                                                          *)

\* the state after the script has run: resize() done, load() waiting for
\* its GET
Boot(cv, srv) ==
    /\ quests = <<>>
    /\ selectedQuestId = NoQuest
    /\ panelOpen = FALSE
    /\ canvas = cv
    /\ cam = clampCamera([x |-> R(0), y |-> R(0), z |-> R(1)], cv)
    /\ isSpaceDown = FALSE
    /\ dragging = [active |-> FALSE, questId |-> NoQuest,
                   offsetX |-> R(0), offsetY |-> R(0)]
    /\ panning = [active |-> FALSE, startSX |-> R(0), startSY |-> R(0),
                  startCamX |-> R(0), startCamY |-> R(0)]
    /\ placing = [active |-> FALSE, pendingTitle |-> <<>>, pendingNote |-> <<>>,
                  wx |-> R(0), wy |-> R(0)]
    /\ inflight = {Request(0, "load", NoQuest, NoPayload, Pt(0, 0), "", Pt(0, 0))}
    /\ server = srv
    /\ toasts = ""
    /\ budget = [req |-> 0, wheel |-> 0, pan |-> 0]
    /\ downAt = Pt(0, 0)
    /\ probe = NoProbe

\* what the server holds when the page opens: one quest, at the world
\* point under pointer position (450, 450) once the view is reset
ServerQuests ==
    << Quest(1, <<"a">>, <<>>, "backlog", R(500), R(500)) >>

\* a canvas of 1800 x 1000 CSS pixels shows the whole world at both zoom
\* factors the page sets by itself, so the offset stays (0, 0)
InitBoot == Boot(sizeCanvas(R(1800), R(1000), R(1)), [quests |-> ServerQuests, nextId |-> 2])

\* the page once load() has finished and a click on quest 1 has opened the
\* panel; the script's start leads here by load(), a click and its PATCH
PanelShown ==
    /\ quests = ServerQuests
    /\ selectedQuestId = 1
    /\ panelOpen = TRUE
    /\ canvas = sizeCanvas(R(1800), R(1000), R(1))
    /\ cam = clampCamera(resetCamera(canvas), canvas)
    /\ isSpaceDown = FALSE
    /\ dragging = [active |-> FALSE, questId |-> 1, offsetX |-> R(0), offsetY |-> R(0)]
    /\ panning = [active |-> FALSE, startSX |-> R(0), startSY |-> R(0),
                  startCamX |-> R(0), startCamY |-> R(0)]
    /\ placing = [active |-> FALSE, pendingTitle |-> <<>>, pendingNote |-> <<>>,
                  wx |-> R(0), wy |-> R(0)]
    /\ inflight = {}
    /\ server = [quests |-> ServerQuests, nextId |-> 2]
    /\ toasts = ""
    /\ downAt = Pt(450, 450)

InitPanel ==
    PanelShown /\ budget = [req |-> 0, wheel |-> 0, pan |-> 0] /\ probe = NoProbe

\* the page at the script's start, or with the panel already open, so that
\* the requests counted by MaxRequests can be the panel's
Init == InitBoot \/ InitPanel

\* the page's handlers on a board the window shows whole: the Space key and
\* the camera's own handlers are exercised by SpecCam below
Next ==
    \/ KeyEscape
    \/ QpClose
    \/ \E p \in Points : MouseMove(p)
    \/ \E p \in Points, b \in Buttons : MouseDown(p, b)
    \/ \E p \in Points : MouseUp(p)
    \/ MouseLeave
    \/ \E t \in TitleInputs, n \in NoteInputs : Submit(t, n)
    \/ \E t \in TitleInputs, n \in NoteInputs, u \in Randoms : RandomPlace(t, n, u)
    \/ \E t \in TitleInputs, n \in NoteInputs : QpSave(t, n)
    \/ QpDelete
    \/ \E r \in inflight, fails \in BOOLEAN : ServerHandle(r, fails)
    \/ \E r \in inflight : CompleteLoad(r)
    \/ \E r \in inflight : CompleteCreate(r)
    \/ \E r \in inflight : CompleteMove(r)
    \/ \E r \in inflight : CompleteSave(r)
    \/ \E r \in inflight : CompleteDelete(r)

Spec == Init /\ [][Next]_vars

----------------------------------------------------------------------------
(* The camera: a window smaller than the world, and one larger than it     *)

\* bounding rectangle and device pixel ratio of the canvas
Canvases == { <<R(900), R(500), R(1)>>, <<R(1200), R(700), R(2)>> }

\* zoom factors the wheel reaches: the reset value and both clamp limits
Zooms == { ZoomMin, ZoomReset, ZoomMax }

\* an empty board after load(), then zoomed by the wheel with the pointer at
\* (0, 0), which keeps the offset unless clampCamera moves it
InitCam ==
    \E cv \in Canvases, z0 \in Zooms :
        LET c == sizeCanvas(cv[1], cv[2], cv[3]) IN
        /\ quests = <<>>
        /\ selectedQuestId = NoQuest
        /\ panelOpen = FALSE
        /\ canvas = c
        /\ cam = clampCamera([resetCamera(c) EXCEPT !.z = z0], c)
        /\ isSpaceDown = FALSE
        /\ dragging = [active |-> FALSE, questId |-> NoQuest,
                       offsetX |-> R(0), offsetY |-> R(0)]
        /\ panning = [active |-> FALSE, startSX |-> R(0), startSY |-> R(0),
                      startCamX |-> R(0), startCamY |-> R(0)]
        /\ placing = [active |-> FALSE, pendingTitle |-> <<>>, pendingNote |-> <<>>,
                      wx |-> R(0), wy |-> R(0)]
        /\ inflight = {}
        /\ server = [quests |-> <<>>, nextId |-> 1]
        /\ toasts = ""
        /\ budget = [req |-> 0, wheel |-> 0, pan |-> 0]
        /\ downAt = Pt(0, 0)
        /\ probe = NoProbe

WheelSigns == { -1, 1 }

NextCam ==
    \/ KeyDownSpace
    \/ KeyUpSpace
    \/ \E p \in Points : MouseMove(p)
    \/ \E p \in Points, b \in Buttons : MouseDown(p, b)
    \/ \E p \in Points : MouseUp(p)
    \/ MouseLeave
    \/ \E p \in Points, d \in WheelSigns : Wheel(p, d)
    \/ Recenter
    \/ \E cv \in Canvases : Resize(cv[1], cv[2], cv[3])

SpecCam == InitCam /\ [][NextCam]_vars

----------------------------------------------------------------------------
(* Placing under a moving camera: the form and the random-place button,    *)
(* pointer moves, middle-button pans and the wheel, up to the POST         *)

\* pointer positions: near the far corner of the larger canvas too, which is
\* beyond the world's right and bottom edges when the camera is zoomed out
PlacePoints == Points \cup { Pt(1190, 690) }

\* the canvas gets the mouse events of the points inside its rectangle
onCanvas(p) == RLe(p.x, canvas.rw) /\ RLe(p.y, canvas.rh)

NextPlace ==
    \/ \E p \in PlacePoints : onCanvas(p) /\ MouseMove(p)
    \/ \E p \in Points : MouseDown(p, 1)
    \/ \E p \in Points : MouseUp(p)
    \/ \E p \in Points, d \in WheelSigns : Wheel(p, d)
    \/ \E t \in TitleInputs, n \in NoteInputs : Submit(t, n)
    \/ \E t \in TitleInputs, n \in NoteInputs, u \in Randoms : RandomPlace(t, n, u)

SpecPlace == InitCam /\ [][NextPlace]_vars

----------------------------------------------------------------------------
(* The detail panel alone: the main button, the panel's buttons and the   *)
(* requests they issue                                                     *)

\* positions the pointer moves to: those of Points, and one near the
\* canvas's lower right corner, whose world point lies outside the world
PanelPoints == Points \cup { Pt(1710, 945) }

NextPanel ==
    \/ KeyEscape
    \/ QpClose
    \/ \E p \in PanelPoints : MouseMove(p)
    \/ \E p \in Points : MouseDown(p, 0)
    \/ \E p \in Points : MouseUp(p)
    \/ MouseLeave
    \/ \E t \in TitleInputs, n \in NoteInputs : QpSave(t, n)
    \/ QpDelete
    \/ \E r \in inflight, fails \in BOOLEAN : ServerHandle(r, fails)
    \/ \E r \in inflight : CompleteMove(r)
    \/ \E r \in inflight : CompleteSave(r)
    \/ \E r \in inflight : CompleteDelete(r)

SpecPanel == InitPanel /\ [][NextPanel]_vars

----------------------------------------------------------------------------
(* The detail panel with a save under way: the Save button has been        *)
(* clicked with title "b" and its PATCH has not been answered, so that the *)
(* request counted by MaxRequests overlaps it                              *)

InitSaving ==
    /\ quests = ServerQuests
    /\ selectedQuestId = 1
    /\ panelOpen = TRUE
    /\ canvas = sizeCanvas(R(1800), R(1000), R(1))
    /\ cam = clampCamera(resetCamera(canvas), canvas)
    /\ isSpaceDown = FALSE
    /\ dragging = [active |-> FALSE, questId |-> 1, offsetX |-> R(0), offsetY |-> R(0)]
    /\ panning = [active |-> FALSE, startSX |-> R(0), startSY |-> R(0),
                  startCamX |-> R(0), startCamY |-> R(0)]
    /\ placing = [active |-> FALSE, pendingTitle |-> <<>>, pendingNote |-> <<>>,
                  wx |-> R(0), wy |-> R(0)]
    /\ inflight = { Request(0, "save", 1,
                            [NoPayload EXCEPT !.title = <<"b">>, !.note = <<"n">>],
                            Pt(0, 0), "", Pt(0, 0)) }
    /\ server = [quests |-> ServerQuests, nextId |-> 2]
    /\ toasts = ""
    /\ downAt = Pt(450, 450)
    /\ budget = [req |-> 0, wheel |-> 0, pan |-> 0]
    /\ probe = NoProbe

SpecOverlap == InitSaving /\ [][NextPanel]_vars

----------------------------------------------------------------------------
(* A drag during a save, with a server that accepts every request: the     *)
(* panel's PATCH is in flight while the main button drags the quest and    *)
(* the release sends the position                                          *)

NextConverge ==
    \/ \E p \in PanelPoints : MouseMove(p)
    \/ \E p \in Points : MouseDown(p, 0)
    \/ \E p \in Points : MouseUp(p)
    \/ \E r \in inflight : ServerHandle(r, FALSE)
    \/ \E r \in inflight : CompleteMove(r)
    \/ \E r \in inflight : CompleteSave(r)

SpecConverge == InitSaving /\ [][NextConverge]_vars

----------------------------------------------------------------------------
(* Functions applied on their own: regionForX, the screen/world round      *)
(* trip and api(), each to arguments drawn by the initial state            *)

\* x for regionForX: the lane edges, their neighbours, and points outside
\* the world on both sides
RegionArgs ==
    { R(-1), Frac(-1, 2), R(0), Frac(1, 2), R(599), Frac(1199, 2), R(600),
      R(650), R(1199), Frac(2399, 2), R(1200), R(1799), Frac(3599, 2),
      R(1800), R(1801), R(5000) }

\* camera states (zoom > 0) and world points for the round trip
RoundTripCams ==
    { [x |-> x, y |-> y, z |-> z] :
        x \in { R(0), R(400), Frac(1800, 11) },
        y \in { R(0), Frac(2000, 9) },
        z \in { ZoomMin, ZoomReset, R(1), Frac(27, 25), ZoomMax } }

RoundTripPoints ==
    { [x |-> R(0), y |-> R(0)], [x |-> R(500), y |-> R(500)],
      [x |-> R(650), y |-> R(400)], [x |-> R(1800), y |-> R(1000)],
      [x |-> Frac(1, 3), y |-> Frac(2, 7)], [x |-> R(-20), y |-> R(1200)] }

\* responses for api(): the statuses, and per kind of body (empty, JSON,
\* text that is not JSON) the value api() gets from it; error is the JSON
\* body's error field, "" if it has none
Statuses == { 200, 201, 204, 299, 300, 400, 404, 500 }

EmptyResponses ==
    { [status |-> st, kind |-> "empty", data |-> <<>>, error |-> ""] : st \in Statuses }

JsonResponses ==
    { [status |-> st, kind |-> "json", data |-> d, error |-> e] :
        st \in Statuses, d \in { <<>>, ServerQuests }, e \in { "", "not found" } }

TextResponses ==
    { [status |-> st, kind |-> "text", data |-> <<"<", "p", ">">>, error |-> ""] :
        st \in Statuses }

InitFn ==
    /\ PanelShown
    /\ budget = [req |-> 0, wheel |-> 0, pan |-> 0]
    /\ \/ \E x \in RegionArgs :
             probe = [fn |-> "regionForX", arg |-> x, out |-> <<>>]
       \/ \E c \in RoundTripCams, w \in RoundTripPoints :
             probe = [fn |-> "roundTrip", arg |-> [c |-> c, w |-> w], out |-> <<>>]
       \/ \E resp \in EmptyResponses :
             probe = [fn |-> "api", arg |-> resp, out |-> <<>>]
       \/ \E resp \in JsonResponses :
             probe = [fn |-> "api", arg |-> resp, out |-> <<>>]
       \/ \E resp \in TextResponses :
             probe = [fn |-> "api", arg |-> resp, out |-> <<>>]

page == <<quests, selectedQuestId, panelOpen, cam, canvas, isSpaceDown, dragging,
          panning, placing, inflight, server, toasts, budget, downAt>>

ApplyRegionForX ==
    /\ probe.fn = "regionForX"
    /\ probe.out = <<>>
    /\ probe' = [probe EXCEPT !.out = <<regionForX(probe.arg)>>]
    /\ UNCHANGED page

\* screenToWorld(worldToScreen(w)) under one camera state
ApplyRoundTrip ==
    /\ probe.fn = "roundTrip"
    /\ probe.out = <<>>
    /\ LET s == worldToScreen(probe.arg.c, probe.arg.w.x, probe.arg.w.y)
       IN  probe' = [probe EXCEPT !.out = <<screenToWorld(probe.arg.c, s.x, s.y)>>]
    /\ UNCHANGED page

ApplyApi ==
    /\ probe.fn = "api"
    /\ probe.out = <<>>
    /\ probe' = [probe EXCEPT !.out = <<api(probe.arg)>>]
    /\ UNCHANGED page

NextFn == ApplyRegionForX \/ ApplyRoundTrip \/ ApplyApi

SpecFn == InitFn /\ [][NextFn]_vars

----------------------------------------------------------------------------
(* Properties                                                              *)

\* the status lanes of the board: backlog on [0,600), doing on [600,1200),
\* done from 1200 to the world's right edge
statusOfX(x) ==
    IF RLt(x, R(600)) THEN "backlog"
    ELSE IF RLt(x, R(1200)) THEN "doing" ELSE "done"

\* C1: after every mousemove handled as a drag-move (dragging active, placing
\* not active, the dragged quest in the local collection) the dragged quest
\* has x in [0, WORLD.w], y in [0, WORLD.h] and the status of the lane that
\* holds its x; at x = 650 the status is "doing"
C1_DragMoveSetsStatus ==
    [][\A p \in PanelPoints :
          (/\ MouseMove(p)
           /\ dragging.active
           /\ ~placing.active
           /\ findQuest(quests, dragging.questId) # 0)
          => LET j == findQuest(quests', dragging.questId) IN
             /\ j # 0
             /\ RLe(R(0), quests'[j].x) /\ RLe(quests'[j].x, R(WorldW))
             /\ RLe(R(0), quests'[j].y) /\ RLe(quests'[j].y, R(WorldH))
             /\ quests'[j].status = statusOfX(quests'[j].x)
             /\ (quests'[j].x = R(650) => quests'[j].status = "doing")]_vars

\* a drag in progress has carried quest 1 to x = 650 and made it "doing",
\* while the server, which no request has reached, still has it in backlog
C1_Dragged ==
    /\ dragging.active
    /\ ~placing.active
    /\ budget.req = 0
    /\ \E i \in DOMAIN quests :
          /\ quests[i].id = dragging.questId
          /\ quests[i].x = R(650)
          /\ quests[i].status = "doing"
    /\ \E i \in DOMAIN server.quests :
          /\ server.quests[i].id = dragging.questId
          /\ server.quests[i].status = "backlog"

\* C2: in every reachable state at most one of dragging.active,
\* panning.active and placing.active is true
C2_OneModeActive ==
    /\ ~(dragging.active /\ panning.active)
    /\ ~(dragging.active /\ placing.active)
    /\ ~(panning.active /\ placing.active)

\* C3: when a PATCH of a drag release or of the panel's save resolves
\* successfully, the local record of that quest equals the response in
\* every field right after the completion
C3_PatchResponseReplacesLocal ==
    [][\A r \in inflight :
          (/\ CompleteMove(r) \/ CompleteSave(r)
           /\ ~api(r.resp).threw
           /\ findQuest(quests, r.id) # 0)
          => /\ findQuest(quests', r.id) # 0
             /\ quests'[findQuest(quests', r.id)] = api(r.resp).data[1]]_vars

quiet == <<quests, selectedQuestId, panelOpen, cam, canvas, isSpaceDown, dragging,
           panning, placing, inflight, server, budget, downAt>>

\* C5: a form submit, a random-place click or a panel save whose title is
\* empty after trimming issues no request and changes neither the
\* collection nor the mode nor the pending placement; it shows a notice
C5_BlankTitleRejectedLocally ==
    [][\A t \in TitleInputs, n \in NoteInputs :
          Trim(t) = <<>>
          => /\ (Submit(t, n) \/ \E u \in Randoms : RandomPlace(t, n, u))
                => (quiet' = quiet /\ toasts' = "Need a title")
             /\ QpSave(t, n)
                => (quiet' = quiet /\ toasts' = "Title cannot be empty")]_vars

\* the panel's save was clicked with a blank title: its notice is up while
\* the panel is open on a quest of the collection and nothing is in flight
C5_BlankSaveRefused ==
    /\ toasts = "Title cannot be empty"
    /\ panelOpen
    /\ findQuest(quests, selectedQuestId) # 0
    /\ inflight = {}

\* one axis of the camera within its limits: a view no larger than the world
\* lies inside it, a larger one starts at 0
axisClamped(offset, extent, world) ==
    IF RLe(extent, R(world))
    THEN RLe(R(0), offset) /\ RLe(RAdd(offset, extent), R(world))
    ELSE offset = R(0)

\* C6: after any sequence of pans, wheel zooms, recenters and resizes the
\* camera is within its limits on both axes, the view's extent being the
\* canvas size over the zoom
C6_CameraClamped ==
    /\ axisClamped(cam.x, RDiv(R(canvas.w), cam.z), WorldW)
    /\ axisClamped(cam.y, RDiv(R(canvas.h), cam.z), WorldH)

\* a pan in progress has pushed a view narrower than the world against the
\* world's right edge
C6_PannedToEdge ==
    /\ panning.active
    /\ cam.x # panning.startCamX
    /\ RLt(R(0), cam.x)
    /\ RAdd(cam.x, RDiv(R(canvas.w), cam.z)) = R(WorldW)

\* the camera strictly inside its limits on both axes
interior(c, cv) ==
    /\ RLt(R(0), c.x) /\ RLt(RAdd(c.x, RDiv(R(cv.w), c.z)), R(WorldW))
    /\ RLt(R(0), c.y) /\ RLt(RAdd(c.y, RDiv(R(cv.h), c.z)), R(WorldH))

\* C7 as stated: the world point under the cursor is the same before and
\* after every run of the wheel handler
C7_WheelKeepsCursorPoint ==
    [][\A p \in Points, d \in WheelSigns :
          Wheel(p, d)
          => screenToWorld(cam', p.x, p.y) = screenToWorld(cam, p.x, p.y)]_vars

\* C7: the world point under the cursor is the same before and after a run
\* of the wheel handler that leaves the camera strictly inside its limits
\* on both axes, whether or not the zoom factor was clamped
C7_WheelKeepsCursorPointInside ==
    [][\A p \in Points, d \in WheelSigns :
          (Wheel(p, d) /\ interior(cam', canvas))
          => screenToWorld(cam', p.x, p.y) = screenToWorld(cam, p.x, p.y)]_vars

\* one wheel event has changed the zoom factor and left the camera strictly
\* inside its limits
C7_ZoomedInside ==
    /\ budget.wheel = 1
    /\ budget.pan = 0
    /\ cam.z \notin Zooms
    /\ interior(cam, canvas)

\* C8: questAtScreen gives the marker drawn last among those within the hit
\* radius of the point, and null exactly when none is
C8_HitIsTopmost ==
    \A p \in Points :
        questAtScreen(cam, quests, p.x, p.y) = topmostDrawn(cam, quests, p.x, p.y)

\* the pointer went down at a and up at b no further away than a marker's
\* radius
clickLike(a, b) ==
    LET dx == RSub(b.x, a.x)
        dy == RSub(b.y, a.y)
    IN  RLe(RAdd(RMul(dx, dx), RMul(dy, dy)), R(HitRadius * HitRadius))

\* C9: the release of a drag opens the detail panel only if the pointer
\* went up within a click's distance of where it went down
C9_PanelOpensOnClickOnly ==
    [][/\ \A r \in inflight :
             (CompleteMove(r) /\ ~panelOpen /\ panelOpen')
             => clickLike(r.down, [x |-> r.sx, y |-> r.sy])
       /\ \A p \in Points :
             (MouseUp(p) /\ dragging.active /\ ~panelOpen /\ panelOpen')
             => clickLike(downAt, p)]_vars

\* C10: a mouseleave leaves dragging and panning inactive, issues no request
\* and changes no quest; and a PATCH of a position is only ever issued by a
\* mouseup that ends an active drag, so none follows for the abandoned one
C10_LeaveEndsGestureUnsaved ==
    [][/\ MouseLeave
          => /\ ~dragging'.active /\ ~panning'.active
             /\ inflight' = inflight
             /\ quests' = quests
             /\ server' = server
       /\ (\E r \in inflight' : r.kind = "move" /\ \A o \in inflight : o.rid # r.rid)
          => /\ dragging.active /\ ~dragging'.active
             /\ \E p \in Points : MouseUp(p)]_vars

\* a drag that carried quest 1 to x = 650 was ended by the pointer leaving:
\* no gesture is active, no request was ever issued, and the local record
\* keeps the dragged position the server never saw
C10_DragAbandoned ==
    /\ ~dragging.active /\ ~panning.active
    /\ dragging.questId = 1
    /\ budget.req = 0
    /\ inflight = {}
    /\ \E i \in DOMAIN quests :
          quests[i].id = 1 /\ quests[i].x = R(650) /\ quests[i].status = "doing"
    /\ \E i \in DOMAIN server.quests :
          server.quests[i].id = 1 /\ server.quests[i].x = R(500)

\* C11: a random-place click with a non-empty title leaves placing
\* inactive and a new POST in flight when the handler returns; the POST's
\* point lies in one region less its margins (x0 + 60 <= x < x1 - 60,
\* 90 <= y < WORLD.h - 90) and its status is that region's key
C11_RandomPlaceCommitsAtOnce ==
    [][\A t \in TitleInputs, n \in NoteInputs, u \in Randoms :
          (Trim(t) # <<>> /\ RandomPlace(t, n, u))
          => /\ ~placing'.active
             /\ \E r \in inflight' :
                   /\ \A o \in inflight : o.rid # r.rid
                   /\ r.kind = "create"
                   /\ r.resp = Pending
                   /\ r.payload.title = Trim(t)
                   /\ \E i \in DOMAIN REGIONS :
                         /\ r.payload.status = REGIONS[i].key
                         /\ RLe(R(REGIONS[i].x0 + 60), r.payload.x)
                         /\ RLt(r.payload.x, R(REGIONS[i].x1 - 60))
                   /\ RLe(R(90), r.payload.y)
                   /\ RLt(r.payload.y, R(WorldH - 90))]_vars

\* a POST for the random point (1620, 705) of the last region is in flight
\* and placing is inactive
C11_RandomPosted ==
    /\ ~placing.active
    /\ \E r \in inflight :
          /\ r.kind = "create"
          /\ r.payload.x = R(1620) /\ r.payload.y = R(705)
          /\ r.payload.status = "done"

\* C12: regionForX always returns a region: for x in [0, WORLD.w) the one
\* region with x0 <= x < x1, for any other x the last region
C12_RegionForXTotal ==
    (probe.fn = "regionForX" /\ probe.out # <<>>)
    => LET x == probe.arg
           r == probe.out[1]
           holds(i) == RLe(R(REGIONS[i].x0), x) /\ RLt(x, R(REGIONS[i].x1))
       IN  /\ \E i \in DOMAIN REGIONS : r = REGIONS[i]
           /\ IF RLe(R(0), x) /\ RLt(x, R(WorldW))
              THEN /\ RLe(R(r.x0), x) /\ RLt(x, R(r.x1))
                   /\ \A i \in DOMAIN REGIONS : holds(i) => r = REGIONS[i]
                   /\ Cardinality({ i \in DOMAIN REGIONS : holds(i) }) = 1
              ELSE r = REGIONS[Len(REGIONS)]

\* regionForX has been applied to x = -1, which no region holds, and has
\* returned the last region
C12_NegativeGivesLast ==
    /\ probe.fn = "regionForX"
    /\ probe.arg = R(-1)
    /\ probe.out = << REGIONS[3] >>

\* C18: for a camera state with zoom > 0 and a world point w,
\* screenToWorld(worldToScreen(w)) is w
C18_RoundTrip ==
    (probe.fn = "roundTrip" /\ probe.out # <<>>) => probe.out[1] = probe.arg.w

\* the round trip has been made at the largest zoom with a non-zero offset
\* for a point with fractional coordinates
C18_RoundTripMade ==
    /\ probe.fn = "roundTrip"
    /\ probe.arg.c.z = ZoomMax
    /\ probe.arg.c.x = R(400)
    /\ probe.arg.w.x = Frac(1, 3)
    /\ probe.out = << probe.arg.w >>

\* the message of the generic error for the statuses drawn
httpMessage(st) ==
    CASE st = 300 -> "HTTP 300" [] st = 400 -> "HTTP 400"
      [] st = 404 -> "HTTP 404" [] st = 500 -> "HTTP 500"

\* C19: api() returns the body's value for a 2xx response, whatever the
\* body; otherwise it throws, with the error field of a JSON body that has
\* one as message and "HTTP <status>" in every other case
C19_ApiResult ==
    (probe.fn = "api" /\ probe.out # <<>>)
    => LET resp == probe.arg
           a    == probe.out[1]
       IN  IF resp.status >= 200 /\ resp.status <= 299
           THEN ~a.threw /\ a.data = resp.data
           ELSE /\ a.threw
                /\ a.msg = IF resp.kind = "json" /\ resp.error # ""
                           THEN resp.error
                           ELSE httpMessage(resp.status)

\* api() has thrown "HTTP 404" for a 404 whose body is not JSON
C19_GenericMessage ==
    /\ probe.fn = "api"
    /\ probe.arg.status = 404
    /\ probe.arg.kind = "text"
    /\ probe.out # <<>>
    /\ probe.out[1].threw
    /\ probe.out[1].msg = "HTTP 404"

\* C13: the step that issues a create (pointer-up while placing, or
\* random-place) leaves the collection alone and placing inactive, and the
\* completion of a create that failed changes nothing but the notice, which
\* becomes the error message, and the set of requests in flight: the
\* collection, the placing state, both gestures, the selection, the panel
\* and the camera are as they were
C13_FailedCreateChangesNothing ==
    [][/\ (\E r \in inflight' : r.kind = "create" /\ \A o \in inflight : o.rid # r.rid)
          => (quests' = quests /\ ~placing'.active)
       /\ \A r \in inflight :
             (CompleteCreate(r) /\ api(r.resp).threw)
             => /\ quests' = quests
                /\ placing' = placing
                /\ <<selectedQuestId, panelOpen, cam, canvas, isSpaceDown, dragging,
                     panning, server, budget, downAt>>'
                   = <<selectedQuestId, panelOpen, cam, canvas, isSpaceDown, dragging,
                       panning, server, budget, downAt>>
                /\ inflight' = inflight \ {r}
                /\ toasts' = api(r.resp).msg]_vars

\* a create was refused: its notice is shown, nothing is in flight, the
\* collection is the loaded one and placing is inactive
C13_CreateRefused ==
    /\ toasts = "create failed"
    /\ inflight = {}
    /\ budget.req = 1
    /\ quests = ServerQuests
    /\ ~placing.active

\* C14: while placing is active no pointer-down, with either button and on
\* a marker or off it, changes anything: no pan and no drag starts, the
\* selection, the camera and the pending placement stay, placing stays active
C14_PointerDownIgnoredWhilePlacing ==
    [][\A p \in Points, b \in Buttons :
          (placing.active /\ MouseDown(p, b))
          => /\ panning' = panning
             /\ dragging' = dragging
             /\ selectedQuestId' = selectedQuestId
             /\ cam' = cam
             /\ placing' = placing
             /\ placing'.active
             /\ vars' = vars]_vars

\* placing is active, no gesture is, and the pointer is over a marker that
\* is not selected: a pointer-down here would otherwise select and drag it
C14_PlacingOverMarker ==
    /\ placing.active
    /\ ~dragging.active
    /\ ~panning.active
    /\ selectedQuestId = NoQuest
    /\ \E p \in Points : questAtScreen(cam, quests, p.x, p.y) # 0

\* C15: every create request in flight carries a position inside the world
\* (x in [0, WORLD.w], y in [0, WORLD.h]) and the status of the region that
\* regionForX gives for its x, which is the lane holding x
C15_CreatePayloadMatchesRegion ==
    \A r \in inflight :
       r.kind = "create"
       => /\ r.payload.status = regionForX(r.payload.x).key
          /\ r.payload.status = statusOfX(r.payload.x)
          /\ RLe(R(0), r.payload.x) /\ RLe(r.payload.x, R(WorldW))
          /\ RLe(R(0), r.payload.y) /\ RLe(r.payload.y, R(WorldH))

\* a click-to-place create is in flight for a point the pointer was moved to
\* under a panned camera: its lane is not the first one
C15_PlacedAfterPanAndMove ==
    /\ budget.pan = 1
    /\ budget.wheel = 1
    /\ \E r \in inflight :
          /\ r.kind = "create"
          /\ r.payload.status = "doing"
          /\ r.payload.x # clampTo(screenToWorld(cam, RDiv(canvas.rw, R(2)),
                                                 RDiv(canvas.rh, R(2))).x, WorldW)

\* C16: after every mouseup, up to its first await, neither dragging nor
\* panning is active
C16_PointerUpEndsGestures ==
    [][\A p \in Points :
          MouseUp(p) => (~dragging'.active /\ ~panning'.active)]_vars

\* ids of the quests of a collection
idsOf(qs) == { qs[i].id : i \in DOMAIN qs }

\* C17: a step takes a quest out of the local collection only if it is the
\* successful completion of a DELETE for that quest's id, and every
\* successful completion of a DELETE leaves its quest absent and the
\* selection cleared
C17_RemovedOnlyByDelete ==
    [][/\ \A id \in idsOf(quests) \ idsOf(quests') :
             \E r \in inflight :
                /\ r.kind = "delete" /\ r.id = id
                /\ CompleteDelete(r)
                /\ ~api(r.resp).threw
       /\ \A r \in inflight :
             (CompleteDelete(r) /\ ~api(r.resp).threw)
             => /\ r.id \notin idsOf(quests')
                /\ idsOf(quests') = idsOf(quests) \ {r.id}
                /\ selectedQuestId' = NoQuest]_vars

\* C20: the selection is null or the id of a quest of the local collection
C20_SelectionIsPresent ==
    selectedQuestId = NoQuest \/ selectedQuestId \in idsOf(quests)

\* C21: when no request is in flight and no gesture is active, every quest
\* of the local collection has a record on the server with the same title,
\* note, x, y and status (in SpecConverge every request issued has succeeded)
C21_LocalMirrorsServer ==
    (inflight = {} /\ ~dragging.active /\ ~panning.active /\ ~placing.active)
    => \A i \in DOMAIN quests :
          \E j \in DOMAIN server.quests :
             /\ server.quests[j].id = quests[i].id
             /\ server.quests[j].title = quests[i].title
             /\ server.quests[j].note = quests[i].note
             /\ server.quests[j].x = quests[i].x
             /\ server.quests[j].y = quests[i].y
             /\ server.quests[j].status = quests[i].status

====
